---------------------------- MODULE Spec2Model ----------------------------
(***************************************************************************)
(* The agent loops of the notebooks: a chat model bound to tools, a tool   *)
(* node, a router (conditional edge), an in-memory checkpointer keyed by   *)
(* thread id, and the two human-in-the-loop variants (interrupt before the *)
(* tool node; interrupt before the ask_user node).                         *)
(*                                                                         *)
(* Node names are normalised over the notebooks: "agent" is the node the   *)
(* chatbot notebooks call "chatbot", "tool_node" the one they call         *)
(* "tools".  The chat model and the tools are external: the model answers  *)
(* with any assistant message or raises, a registered tool returns or      *)
(* raises.                                                                 *)
(***************************************************************************)
EXTENDS Integers, Sequences, FiniteSets, TLC

\* ------------------------------------------------------------------ bounds
MaxMsgs == 6        \* messages held (and still owed) over all threads
MaxCalls == 2       \* tool calls in one assistant turn
LogWindow == 3      \* most recent operations and steps remembered per thread
MaxLoop == 28       \* messages held (and still owed) by the one long run

\* --------------------------------------------------------------- constants
Threads == {"user_1", "user_2"}

\* The compiled graphs of the notebooks.
\*   "stateless": compile()                                   (chatbot, no memory)
\*   "chatbot"  : compile(checkpointer=memory)
\*   "approval" : compile(checkpointer=memory, interrupt_before=["tools"])
\*   "clarify"  : compile(checkpointer=memory, interrupt_before=["ask_user"])
Graphs == {"stateless", "chatbot", "approval", "clarify"}

END == "__end__"
AskUser == "AskUser"
Search == "tavily_search_results_json"
GetDate == "get_current_date"
Unknown == "no_such_tool"

\* Names the chat model may put in a tool call: the tools bound to it
\* (bind_tools) and a name no registry holds.
ToolNames(g) ==
    CASE g = "clarify" -> {Search, AskUser, Unknown}
      [] g = "approval" -> {Search, Unknown}
      [] OTHER -> {Search, GetDate, Unknown}

VARIABLES
    graph,      \* which compiled graph this run of the notebook uses
    users,      \* the thread ids the callers use
    store,      \* the checkpoint of each thread: exists, messages, next
    active,     \* a stream() call of the thread is in flight
    result,     \* how the thread's last stream() call ended
    log,        \* per thread: the operations and steps executed, in order
    steps       \* per thread: the steps its stream() call in flight has run

vars == <<graph, users, store, active, result, log, steps>>

\* ---------------------------------------------------------------- messages
HumanMessage == [type |-> "human", tool_calls |-> <<>>, tool_call_id |-> 0,
                 name |-> "", status |-> ""]

AIMessage(calls) == [type |-> "ai", tool_calls |-> calls, tool_call_id |-> 0,
                     name |-> "", status |-> ""]

ToolMessage(id, nm, st) == [type |-> "tool", tool_calls |-> <<>>,
                            tool_call_id |-> id, name |-> nm, status |-> st]

NoCheckpoint == [exists |-> FALSE, messages |-> <<>>, next |-> END]

Checkpoint(msgs, nxt) == [exists |-> TRUE, messages |-> msgs, next |-> nxt]

Last(s) == s[Len(s)]

RECURSIVE CountCalls(_)
CountCalls(msgs) ==
    IF msgs = <<>> THEN 0
    ELSE Len(Last(msgs).tool_calls) + CountCalls(SubSeq(msgs, 1, Len(msgs) - 1))

\* The model gives every tool call an id of its own.
FreshCalls(msgs, names) ==
    [i \in 1..Len(names) |-> [id |-> CountCalls(msgs) + i, name |-> names[i]]]

NameSeqs(g) == UNION {[1..k -> ToolNames(g)] : k \in 0..MaxCalls}

\* ------------------------------------------------------------ graph wiring
\* State.messages is Annotated[list, add_messages]: an update is appended.
add_messagesOverwrite(left, right) == right

add_messages(left, right) == left \o right

checkpointerAlways(g) == TRUE

checkpointer(g) == g # "stateless"

interrupt_beforeNone(g) == {}

interrupt_before(g) ==
    CASE g = "approval" -> {"tool_node"}
      [] g = "clarify" -> {"ask_user"}
      [] OTHER -> {}

\* The tools the ToolNode of each graph holds.
tools(g) ==
    CASE g = "clarify" -> {Search}
      [] g = "approval" -> {Search}
      [] OTHER -> {Search, GetDate}

routing_conditionAny(last_message) ==
    IF last_message.tool_calls = <<>> THEN END
    ELSE IF \E i \in 1..Len(last_message.tool_calls) :
                last_message.tool_calls[i].name = AskUser
         THEN "ask_user"
         ELSE "tool_node"

routing_condition(last_message) ==
    IF last_message.tool_calls = <<>> THEN END
    ELSE IF last_message.tool_calls[1].name = AskUser THEN "ask_user"
    ELSE "tool_node"

tools_conditionAlways(last_message) == "tool_node"

tools_condition(last_message) ==
    IF last_message.tool_calls # <<>> THEN "tool_node" ELSE END

\* add_conditional_edges("agent", ...)
RouterByHistory(g, last_message) ==
    IF \E c \in Threads : Len(store[c].messages) >= 3 THEN END
    ELSE IF g = "clarify" THEN routing_condition(last_message)
    ELSE tools_condition(last_message)

Router(g, last_message) ==
    IF g = "clarify" THEN routing_condition(last_message)
    ELSE tools_condition(last_message)

\* ------------------------------------------------------------- the log
Event(ev, n, at, calls, fail) ==
    [ev |-> ev, n |-> n, at |-> at, calls |-> calls, fail |-> fail, order |-> <<>>]

\* The log keeps the last LogWindow events of a thread.
Push(lg, e) == IF Len(lg) < LogWindow THEN Append(lg, e) ELSE Append(Tail(lg), e)

CallerEvents == {"run", "resume", "update"}
StepEvents == {"agent", "agent_err", "tools", "ask_user"}

At(ck) == IF ck.exists THEN ck.next ELSE "no_checkpoint"

\* ------------------------------------------------------------- the bound
Owed(msgs) ==
    IF msgs = <<>> THEN 0
    ELSE IF Last(msgs).type = "ai"
         THEN (IF Last(msgs).tool_calls = <<>> THEN 0
               ELSE Len(Last(msgs).tool_calls) + 1)
         ELSE 1

RECURSIVE Committed(_, _)
Committed(st, T) ==
    IF T = {} THEN 0
    ELSE LET c == CHOOSE x \in T : TRUE
         IN Len(st[c].messages) + Owed(st[c].messages) + Committed(st, T \ {c})

\* One run longer than that is explored: user_1's first run of the chatbot,
\* alone, the model asking for one search at every turn and every search
\* succeeding, with at most an answer without tool calls at its end.
LoopShape(msgs) ==
    /\ msgs # <<>>
    /\ msgs[1] = HumanMessage
    /\ \A k \in 2..Len(msgs) :
        IF k % 2 = 0
        THEN \/ msgs[k] = AIMessage(<<[id |-> k \div 2, name |-> Search]>>)
             \/ k = Len(msgs) /\ msgs[k] = AIMessage(<<>>)
        ELSE msgs[k] = ToolMessage(k \div 2, Search, "success")

LongRun(st) ==
    /\ graph = "chatbot"
    /\ \A c \in Threads \ {"user_1"} : ~st[c].exists
    /\ st["user_1"].exists
    /\ LoopShape(st["user_1"].messages)
    /\ Len(st["user_1"].messages) + Owed(st["user_1"].messages) <= MaxLoop

WithinBound(st) == Committed(st, Threads) <= MaxMsgs \/ LongRun(st)

\* --------------------------------------------------------------- Init
Start ==
    /\ graph \in Graphs
    /\ store = [c \in Threads |-> NoCheckpoint]
    /\ active = [c \in Threads |-> FALSE]
    /\ result = [c \in Threads |-> "none"]
    /\ log = [c \in Threads |-> <<>>]
    /\ steps = [c \in Threads |-> 0]

\* One conversation.
Init == Start /\ users = {"user_1"}

\* Two conversations on the same graph and checkpointer: the chatbot with
\* memory (config_user_1, config_user_2) and the clarification graph.
InitTwo == Start /\ graph \in {"chatbot", "clarify"} /\ users = Threads

\* --------------------------------------------------------- the checkpointer
\* MemorySaver keeps one checkpoint per config["configurable"]["thread_id"].
thread_idShared(c) == "user_1"

thread_id(c) == c

Load(c) == store[thread_id(c)]

SaveMerges(c, ck) ==
    [store EXCEPT ![thread_id(c)] =
        IF @.exists THEN [ck EXCEPT !.next = store[thread_id(c)].next] ELSE ck]

Save(c, ck) == [store EXCEPT ![thread_id(c)] = ck]

\* What is left of the loop's state once stream() has returned: the saved
\* checkpoint, or nothing when the graph was compiled without a checkpointer.
Kept(g, ck) == IF checkpointer(g) THEN ck ELSE NoCheckpoint

\* ------------------------------------------------------------- the nodes
\* ToolNode: one ToolMessage per tool call of the last message, in the order of
\* the calls.  A name the node does not hold, and a tool that raises, give a
\* message with status "error" (handle_tool_errors is on by default).
ToolNodeAbort(g, calls, fail) ==
    LET bad == {i \in 1..Len(calls) : fail[i]}
        upto == IF bad = {} THEN Len(calls)
                ELSE (CHOOSE i \in bad : \A j \in bad : i <= j) - 1
    IN [i \in 1..upto |-> ToolMessage(calls[i].id, calls[i].name, "success")]

ToolNodeKnownOnly(g, calls, fail) ==
    LET known == SelectSeq(calls, LAMBDA x : x.name \in tools(g))
    IN [i \in 1..Len(known) |-> ToolMessage(known[i].id, known[i].name, "success")]

ToolNode(g, calls, fail) ==
    [i \in 1..Len(calls) |->
        IF calls[i].name \notin tools(g)
        THEN ToolMessage(calls[i].id, calls[i].name, "error")
        ELSE IF fail[i]
             THEN ToolMessage(calls[i].id, calls[i].name, "error")
             ELSE ToolMessage(calls[i].id, calls[i].name, "success")]

\* The calls of a turn are run on a thread pool (executor.map): they complete
\* in any order, and the results are handed back in the order of the calls.
Orders(n) == {f \in [1..n -> 1..n] : \A i, j \in 1..n : f[i] = f[j] => i = j}

Completed(outputs, order) ==
    [k \in 1..Len(order) |-> [index |-> order[k], output |-> outputs[order[k]]]]

executor_mapAsCompleted(outputs, order) ==
    [k \in 1..Len(order) |-> Completed(outputs, order)[k].output]

executor_map(outputs, order) ==
    [i \in 1..Len(outputs) |->
        LET k == CHOOSE x \in 1..Len(order) : Completed(outputs, order)[x].index = i
        IN Completed(outputs, order)[k].output]

\* The tools that may raise: those the node holds.
Failures(g, calls) ==
    {f \in [1..Len(calls) -> BOOLEAN] :
        \A i \in 1..Len(calls) : f[i] => calls[i].name \in tools(g)}

\* add_edge("tool_node", "agent"), add_edge("ask_user", "agent")
EdgeFromSelf(node) == node

EdgeFrom(node) == "agent"

\* set_entry_point("agent")
EntryPoint == "agent"

\* --------------------------------------------------------- caller operations
\* graph.stream({"messages": [("user", query)]}, config): the input is applied
\* to the thread's checkpoint (the empty state when there is none), whatever
\* node was pending is discarded, and the loop starts at the entry point.
first_input(g, ck) ==
    Checkpoint(add_messages(IF checkpointer(g) THEN ck.messages ELSE <<>>,
                            <<HumanMessage>>),
               EntryPoint)

stream_input(c) ==
    /\ ~active[c]
    /\ store' = Save(c, first_input(graph, Load(c)))
    /\ WithinBound(store')
    /\ active' = [active EXCEPT ![c] = TRUE]
    /\ result' = [result EXCEPT ![c] = "running"]
    /\ log' = [log EXCEPT ![c] = Push(@, Event("run", Len(Load(c).messages),
                                               At(Load(c)), <<>>, <<>>))]
    /\ steps' = [steps EXCEPT ![c] = 0]
    /\ UNCHANGED <<graph, users>>

\* graph.stream(None, config): with no checkpoint there is no input and nothing
\* to resume (EmptyInputError); with a checkpoint the loop goes on from its
\* pending node, past the interrupt, and ends at once when none is pending.
first_NoneStartsRun(g, ck) ==
    IF ~ck.exists
    THEN [ck |-> Checkpoint(<<>>, EntryPoint), active |-> TRUE, result |-> "running"]
    ELSE IF ck.next = END
    THEN [ck |-> ck, active |-> FALSE, result |-> "done"]
    ELSE [ck |-> ck, active |-> TRUE, result |-> "running"]

first_NoneReenters(g, ck) ==
    IF ~ck.exists
    THEN [ck |-> ck, active |-> FALSE, result |-> "EmptyInputError"]
    ELSE IF ck.next = END
    THEN [ck |-> ck, active |-> FALSE, result |-> "done"]
    ELSE [ck |-> Checkpoint(ck.messages, EntryPoint), active |-> TRUE,
          result |-> "running"]

first_None(g, ck) ==
    IF ~ck.exists
    THEN [ck |-> ck, active |-> FALSE, result |-> "EmptyInputError"]
    ELSE IF ck.next = END
    THEN [ck |-> ck, active |-> FALSE, result |-> "done"]
    ELSE [ck |-> ck, active |-> TRUE, result |-> "running"]

stream_None(c) ==
    /\ ~active[c]
    /\ LET r == first_None(graph, Load(c))
       IN /\ store' = Save(c, r.ck)
          /\ active' = [active EXCEPT ![c] = r.active]
          /\ result' = [result EXCEPT ![c] = r.result]
    /\ log' = [log EXCEPT ![c] = Push(@, Event("resume", Len(Load(c).messages),
                                               At(Load(c)), <<>>, <<>>))]
    /\ steps' = [steps EXCEPT ![c] = 0]
    /\ UNCHANGED <<graph, users>>

\* snapshot = graph.get_state(config), in a cell of its own: the snapshot the
\* answering cell reads is the thread's state at a moment the caller had
\* control with an assistant message last, the present one or an earlier pause
\* at ask_user (the cell was not run again since).  A snapshot is named by the
\* length of its history.
Snapshots(msgs) ==
    {k \in 1..Len(msgs) :
        /\ msgs[k].type = "ai"
        /\ msgs[k].tool_calls # <<>>
        /\ (k = Len(msgs) \/ msgs[k].tool_calls[1].name = AskUser)}

\* The cell that answers the clarifying question: the id of the first tool call
\* of the snapshot's last message, a ToolMessage with the user's text for it,
\* and graph.update_state(config, {"messages": [user_response]}, as_node="ask_user").
as_nodeStays(ck, update) == Checkpoint(add_messages(ck.messages, update), ck.next)

as_node(ck, update) ==
    Checkpoint(add_messages(ck.messages, update), EdgeFrom("ask_user"))

update_state(c) ==
    /\ graph = "clarify"
    /\ ~active[c]
    /\ Load(c).exists
    /\ \E k \in Snapshots(Load(c).messages) :
        LET tool_call == Load(c).messages[k].tool_calls[1]
            user_response == ToolMessage(tool_call.id, "", "success")
        IN /\ store' = Save(c, as_node(Load(c), <<user_response>>))
           /\ WithinBound(store')
           /\ log' = [log EXCEPT ![c] = Push(@, Event("update", Len(Load(c).messages),
                                                      At(Load(c)), <<tool_call>>, <<>>))]
    /\ UNCHANGED <<graph, users, active, result, steps>>

\* ------------------------------------------------------------ loop steps
\* config = {"configurable": {"thread_id": ...}} sets no "recursion_limit", so
\* every stream call runs with the library's default of 25 steps: when a step
\* has run, another node is pending and the call has used its steps, the call
\* raises GraphRecursionError; the step's checkpoint is already saved.
recursion_limit == 25

out_of_steps(done) == done + 1 >= recursion_limit

tick(c) ==
    /\ active' = [active EXCEPT ![c] = ~out_of_steps(steps[c])]
    /\ result' = [result EXCEPT ![c] =
                    IF out_of_steps(steps[c]) THEN "GraphRecursionError" ELSE @]
    /\ steps' = [steps EXCEPT ![c] = IF out_of_steps(steps[c]) THEN 0 ELSE @ + 1]

\* agent_node / chatbot: the model is invoked with the whole history and its
\* answer is appended; the conditional edge then names the next node, and the
\* loop stops there when that node is END or is listed in interrupt_before.
agent_ok(c, names) ==
    LET msgs == Load(c).messages
        m == AIMessage(FreshCalls(msgs, names))
        nxt == Router(graph, m)
        stop == nxt = END \/ nxt \in interrupt_before(graph)
        spent == ~stop /\ out_of_steps(steps[c])
        ck == Checkpoint(add_messages(msgs, <<m>>), nxt)
    IN /\ WithinBound(Save(c, ck))
       /\ store' = Save(c, IF stop \/ spent THEN Kept(graph, ck) ELSE ck)
       /\ active' = [active EXCEPT ![c] = ~(stop \/ spent)]
       /\ result' = [result EXCEPT ![c] =
                        IF nxt = END THEN "done"
                        ELSE IF stop THEN "interrupt"
                        ELSE IF spent THEN "GraphRecursionError" ELSE "running"]
       /\ steps' = [steps EXCEPT ![c] = IF stop \/ spent THEN 0 ELSE @ + 1]
       /\ log' = [log EXCEPT ![c] = Push(@, Event("agent", Len(msgs), "agent",
                                                  m.tool_calls, <<>>))]

agent_raises(c) ==
    /\ store' = Save(c, Kept(graph, Load(c)))
    /\ active' = [active EXCEPT ![c] = FALSE]
    /\ result' = [result EXCEPT ![c] = "UpstreamModelError"]
    /\ log' = [log EXCEPT ![c] = Push(@, Event("agent_err", Len(Load(c).messages),
                                               "agent", <<>>, <<>>))]
    /\ steps' = [steps EXCEPT ![c] = 0]

agent_node(c) ==
    /\ active[c]
    /\ Load(c).next = "agent"
    /\ \/ \E names \in NameSeqs(graph) : agent_ok(c, names)
       \/ agent_raises(c)
    /\ UNCHANGED <<graph, users>>

tool_node(c) ==
    /\ active[c]
    /\ Load(c).next = "tool_node"
    /\ LET msgs == Load(c).messages
           calls == Last(msgs).tool_calls
       IN \E fail \in Failures(graph, calls) : \E order \in Orders(Len(calls)) :
            LET ck == Checkpoint(
                        add_messages(msgs, executor_map(ToolNode(graph, calls, fail),
                                                        order)),
                        EdgeFrom("tool_node"))
            IN /\ WithinBound(Save(c, ck))
               /\ store' = Save(c, IF out_of_steps(steps[c]) THEN Kept(graph, ck)
                                   ELSE ck)
               /\ log' = [log EXCEPT ![c] =
                            Push(@, [Event("tools", Len(msgs), "tool_node", calls, fail)
                                        EXCEPT !.order = order])]
    /\ tick(c)
    /\ UNCHANGED <<graph, users>>

\* ask_user_node: a placeholder that writes nothing.
ask_user_node(c) ==
    /\ active[c]
    /\ Load(c).next = "ask_user"
    /\ LET ck == Checkpoint(Load(c).messages, EdgeFrom("ask_user"))
       IN store' = Save(c, IF out_of_steps(steps[c]) THEN Kept(graph, ck) ELSE ck)
    /\ log' = [log EXCEPT ![c] = Push(@, Event("ask_user", Len(Load(c).messages),
                                               "ask_user", <<>>, <<>>))]
    /\ tick(c)
    /\ UNCHANGED <<graph, users>>

Run == \E c \in users : stream_input(c)

Resume == \E c \in users : stream_None(c)

Answer == \E c \in users : update_state(c)

AgentStep == \E c \in users : agent_node(c)

ToolStep == \E c \in users : tool_node(c)

AskUserStep == \E c \in users : ask_user_node(c)

Next ==
    \/ Run
    \/ Resume
    \/ Answer
    \/ AgentStep
    \/ ToolStep
    \/ AskUserStep

Spec == Init /\ [][Next]_vars

SpecTwo == InitTwo /\ [][Next]_vars

\* ================================================================ claims
Msgs(c) == store[c].messages

\* The messages an event's index n points into are still held: always with a
\* checkpointer, and without one only while the run of the event is in flight.
Held(c, i) == checkpointer(graph) \/ (i = Len(log[c]) /\ active[c])

\* ---------------------------------------------------------------- C1
\* C1 (as claimed): in every history, each tool call of an assistant message
\* is answered by exactly one tool message before the next assistant message.
Answered(msgs, i, j) ==
    \A k \in 1..Len(msgs[i].tool_calls) :
        Cardinality({m \in (i + 1)..(j - 1) :
                        /\ msgs[m].type = "tool"
                        /\ msgs[m].tool_call_id = msgs[i].tool_calls[k].id}) = 1

NextAI(msgs, i, j) ==
    /\ i < j
    /\ msgs[i].type = "ai"
    /\ msgs[j].type = "ai"
    /\ \A m \in (i + 1)..(j - 1) : msgs[m].type # "ai"

C1_Pairing ==
    \A c \in users :
        \A i, j \in 1..Len(Msgs(c)) :
            NextAI(Msgs(c), i, j) => Answered(Msgs(c), i, j)

\* ---------------------------------------------------------------- C2
\* C2: the router of the clarification graph sends a message with no tool calls
\* to END, otherwise one whose FIRST call is AskUser to ask_user, otherwise to
\* tool_node; the three cases exclude each other and cover every message.
C2_RouterTable ==
    \A c \in users :
        (graph = "clarify" /\ log[c] # <<>> /\ Last(log[c]).ev = "agent") =>
            LET calls == Last(log[c]).calls
                route == store[c].next
            IN /\ route \in {END, "ask_user", "tool_node"}
               /\ (route = END) <=> (calls = <<>>)
               /\ (route = "ask_user") <=> (calls # <<>> /\ calls[1].name = AskUser)
               /\ (route = "tool_node") <=> (calls # <<>> /\ calls[1].name # AskUser)

C2_Witness ==
    \E c \in users :
        /\ graph = "clarify" /\ log[c] # <<>> /\ Last(log[c]).ev = "agent"
        /\ Len(Last(log[c]).calls) = 2
        /\ Last(log[c]).calls[1].name # AskUser
        /\ Last(log[c]).calls[2].name = AskUser
        /\ store[c].next = "tool_node"

\* ---------------------------------------------------------------- C3
\* C3: with interrupt_before=["tools"], the tool node runs only as the step
\* right after a stream(None) of the caller, and when the model has answered
\* with tool calls the stream has returned (interrupted), the checkpoint's next
\* node is the tool node and its last message is that answer, calls pending.
C3_ApprovalGate ==
    graph = "approval" =>
        \A c \in users :
            /\ \A i \in 2..Len(log[c]) :
                    log[c][i].ev = "tools" => log[c][i - 1].ev = "resume"
            /\ (log[c] # <<>> /\ Last(log[c]).ev = "agent"
                              /\ Last(log[c]).calls # <<>>) =>
                    /\ ~active[c]
                    /\ result[c] = "interrupt"
                    /\ store[c].exists
                    /\ store[c].next = "tool_node"
                    /\ Len(Msgs(c)) = Last(log[c]).n + 1
                    /\ Last(Msgs(c)) = AIMessage(Last(log[c]).calls)

C3_Witness ==
    \E c \in users :
        /\ graph = "approval"
        /\ log[c] # <<>> /\ Last(log[c]).ev = "agent"
        /\ Len(Last(log[c]).calls) = 2
        /\ ~active[c] /\ store[c].next = "tool_node"

\* ---------------------------------------------------------------- C4
\* C4: a stream(None) on a thread paused before the tool node sets the loop
\* running with the tool node next; the step after it is the tool node, on the
\* very calls the model staged (no model step in between), and it appends one
\* tool message per staged call, in order, and nothing else.
C4_ResumeRunsStagedTools ==
    \A c \in users :
        \A i \in 1..Len(log[c]) :
            (log[c][i].ev = "resume" /\ log[c][i].at = "tool_node") =>
                LET n == log[c][i].n
                    staged == Msgs(c)[n].tool_calls
                IN /\ Len(Msgs(c)) >= n
                   /\ Msgs(c)[n].type = "ai"
                   /\ staged # <<>>
                   /\ (i > 1 => /\ log[c][i - 1].ev = "agent"
                                /\ log[c][i - 1].calls = staged)
                   /\ (i = Len(log[c]) => /\ active[c]
                                          /\ result[c] = "running"
                                          /\ store[c].next = "tool_node"
                                          /\ Len(Msgs(c)) = n)
                   /\ (i < Len(log[c]) =>
                         /\ log[c][i + 1].ev = "tools"
                         /\ log[c][i + 1].n = n
                         /\ log[c][i + 1].calls = staged
                         /\ Len(Msgs(c)) >= n + Len(staged)
                         /\ \A k \in 1..Len(staged) :
                               /\ Msgs(c)[n + k].type = "tool"
                               /\ Msgs(c)[n + k].tool_call_id = staged[k].id
                               /\ Msgs(c)[n + k].name = staged[k].name
                         /\ (Len(Msgs(c)) > n + Len(staged) =>
                               Msgs(c)[n + Len(staged) + 1].type # "tool"))

C4_Witness ==
    \E c \in users :
        /\ Len(log[c]) = 3
        /\ log[c][1].ev = "agent" /\ Len(log[c][1].calls) = 2
        /\ log[c][2].ev = "resume" /\ log[c][2].at = "tool_node"
        /\ log[c][3].ev = "tools"

\* ---------------------------------------------------------------- C5
\* C5: when the router of the clarification graph picks ask_user, the stream
\* has returned (interrupted) with the checkpoint's next node ask_user and the
\* history ending with the assistant message that holds the AskUser call; no
\* node runs after it until the caller acts.
SentinelTurn(e) ==
    e.ev = "agent" /\ e.calls # <<>> /\ e.calls[1].name = AskUser

C5_ClarificationPause ==
    graph = "clarify" =>
        \A c \in users :
            /\ (log[c] # <<>> /\ SentinelTurn(Last(log[c]))) =>
                    /\ ~active[c]
                    /\ result[c] = "interrupt"
                    /\ store[c].exists
                    /\ store[c].next = "ask_user"
                    /\ Len(Msgs(c)) = Last(log[c]).n + 1
                    /\ Last(Msgs(c)) = AIMessage(Last(log[c]).calls)
            /\ \A i \in 1..(Len(log[c]) - 1) :
                    SentinelTurn(log[c][i]) => log[c][i + 1].ev \in CallerEvents

C5_Witness ==
    \E c \in users :
        /\ graph = "clarify"
        /\ log[c] # <<>> /\ SentinelTurn(Last(log[c]))
        /\ Len(Last(log[c]).calls) = 2
        /\ store[c].next = "ask_user" /\ ~active[c]

\* ---------------------------------------------------------------- C6
\* C6: update_state(as_node="ask_user") with a ToolMessage for the pending
\* call appends it at the end of the history and leaves the agent node next;
\* the stream(None) that follows sets the loop running, and the step after it
\* is the agent node, whose input ends with that ToolMessage.
PendingAnswer(c, i) ==
    /\ log[c][i].ev = "update"
    /\ log[c][i].n >= 1
    /\ Len(Msgs(c)) >= log[c][i].n
    /\ Msgs(c)[log[c][i].n].type = "ai"
    /\ Msgs(c)[log[c][i].n].tool_calls # <<>>
    /\ Msgs(c)[log[c][i].n].tool_calls[1] = log[c][i].calls[1]

C6_ResumeWithAnswer ==
    \A c \in users :
        \A i \in 1..Len(log[c]) :
            PendingAnswer(c, i) =>
                LET n == log[c][i].n
                IN /\ Len(Msgs(c)) >= n + 1
                   /\ Msgs(c)[n + 1] =
                         ToolMessage(Msgs(c)[n].tool_calls[1].id, "", "success")
                   /\ (i = Len(log[c]) => /\ ~active[c]
                                          /\ store[c].next = "agent"
                                          /\ Len(Msgs(c)) = n + 1)
                   /\ (i < Len(log[c]) /\ log[c][i + 1].ev = "resume") =>
                         /\ log[c][i + 1].at = "agent"
                         /\ log[c][i + 1].n = n + 1
                         /\ (i + 1 = Len(log[c]) => /\ active[c]
                                                    /\ store[c].next = "agent"
                                                    /\ Len(Msgs(c)) = n + 1)
                         /\ (i + 1 < Len(log[c]) =>
                               /\ log[c][i + 2].ev \in {"agent", "agent_err"}
                               /\ log[c][i + 2].n = n + 1)

C6_Witness ==
    \E c \in users :
        /\ Len(log[c]) = 3
        /\ PendingAnswer(c, 1)
        /\ log[c][2].ev = "resume"
        /\ log[c][3].ev = "agent"
        /\ Msgs(c)[log[c][3].n].type = "tool"

\* ---------------------------------------------------------------- C7
\* C7: stream(None) on a thread that has no checkpoint raises (EmptyInputError),
\* runs no node and leaves the thread without a checkpoint; a second call does
\* the same.
NoCheckpointResume(e) == e.ev = "resume" /\ e.at = "no_checkpoint"

C7_ResumeWithoutCheckpoint ==
    \A c \in users :
        /\ (log[c] # <<>> /\ NoCheckpointResume(Last(log[c]))) =>
                /\ ~store[c].exists
                /\ store[c] = NoCheckpoint
                /\ ~active[c]
                /\ result[c] = "EmptyInputError"
        /\ \A i \in 1..(Len(log[c]) - 1) :
                NoCheckpointResume(log[c][i]) => log[c][i + 1].ev \in CallerEvents

C7_Witness ==
    \E c \in users :
        /\ Len(log[c]) >= 2
        /\ NoCheckpointResume(log[c][Len(log[c]) - 1])
        /\ NoCheckpointResume(Last(log[c]))
        /\ result[c] = "EmptyInputError"
        /\ checkpointer(graph)

\* ---------------------------------------------------------------- C8
\* C8: with two thread ids on one graph and one checkpointer, a step changes
\* the checkpoint, the stream status and the log of one thread only, and what
\* it does to that thread is a step the thread can take by itself: it is a
\* function of that thread's own checkpoint and of the caller's, the model's
\* and the tools' inputs, and of nothing the other thread holds.
Own(c) == <<store[c], active[c], result[c], log[c], steps[c]>>

Logged(c, e) == log'[c] = Push(log[c], e)

AloneRun(c) ==
    /\ ~active[c]
    /\ store'[c] = first_input(graph, store[c])
    /\ active'[c] /\ result'[c] = "running"
    /\ Logged(c, Event("run", Len(Msgs(c)), At(store[c]), <<>>, <<>>))

AloneResume(c) ==
    /\ ~active[c]
    /\ store'[c] = first_None(graph, store[c]).ck
    /\ active'[c] = first_None(graph, store[c]).active
    /\ result'[c] = first_None(graph, store[c]).result
    /\ Logged(c, Event("resume", Len(Msgs(c)), At(store[c]), <<>>, <<>>))

AloneAnswer(c) ==
    /\ ~active[c]
    /\ \E k \in Snapshots(Msgs(c)) :
        /\ store'[c] = as_node(store[c],
                        <<ToolMessage(Msgs(c)[k].tool_calls[1].id, "", "success")>>)
        /\ Logged(c, Event("update", Len(Msgs(c)), At(store[c]),
                           <<Msgs(c)[k].tool_calls[1]>>, <<>>))
    /\ active'[c] = active[c] /\ result'[c] = result[c]

AloneAgent(c) ==
    /\ active[c] /\ store[c].next = "agent"
    /\ \/ /\ store'[c] = Kept(graph, store[c])
          /\ ~active'[c] /\ result'[c] = "UpstreamModelError"
          /\ Logged(c, Event("agent_err", Len(Msgs(c)), "agent", <<>>, <<>>))
       \/ \E names \in NameSeqs(graph) :
            LET m == AIMessage(FreshCalls(Msgs(c), names))
                nxt == Router(graph, m)
                stop == nxt = END \/ nxt \in interrupt_before(graph)
                spent == ~stop /\ out_of_steps(steps[c])
                ck == Checkpoint(add_messages(Msgs(c), <<m>>), nxt)
            IN /\ store'[c] = (IF stop \/ spent THEN Kept(graph, ck) ELSE ck)
               /\ active'[c] = ~(stop \/ spent)
               /\ result'[c] \in {"done", "interrupt", "running",
                                  "GraphRecursionError"}
               /\ Logged(c, Event("agent", Len(Msgs(c)), "agent", m.tool_calls, <<>>))

AloneNode(c) ==
    /\ active[c] /\ store[c].next \in {"tool_node", "ask_user"}
    /\ active'[c] = ~out_of_steps(steps[c])
    /\ result'[c] = (IF active'[c] THEN result[c] ELSE "GraphRecursionError")
    /\ \/ /\ store[c].next = "ask_user"
          /\ store'[c] = Checkpoint(Msgs(c), "agent")
          /\ Logged(c, Event("ask_user", Len(Msgs(c)), "ask_user", <<>>, <<>>))
       \/ /\ store[c].next = "tool_node"
          /\ \E fail \in Failures(graph, Last(Msgs(c)).tool_calls) :
             \E order \in Orders(Len(Last(Msgs(c)).tool_calls)) :
               /\ store'[c] = Checkpoint(
                    add_messages(Msgs(c),
                                 executor_map(
                                    ToolNode(graph, Last(Msgs(c)).tool_calls, fail),
                                    order)),
                    "agent")
               /\ Logged(c, [Event("tools", Len(Msgs(c)), "tool_node",
                                   Last(Msgs(c)).tool_calls, fail)
                                EXCEPT !.order = order])

Alone(c) ==
    AloneRun(c) \/ AloneResume(c) \/ AloneAnswer(c) \/ AloneAgent(c) \/ AloneNode(c)

IsolatedStep ==
    \E c \in Threads :
        /\ Alone(c)
        /\ \A d \in Threads \ {c} : Own(d)' = Own(d)

C8_Isolation == [][IsolatedStep]_vars

C8_Witness ==
    /\ users = Threads
    /\ store["user_1"].exists /\ store["user_2"].exists
    /\ store["user_1"].next = "ask_user" /\ ~active["user_1"]
    /\ store["user_2"].next = END
    /\ Len(store["user_1"].messages) = 2
    /\ Len(store["user_2"].messages) = 2
    /\ Last(log["user_2"]).ev = "agent"

\* ---------------------------------------------------------------- C9
\* C9: with a checkpointer, when the router has sent the model's answer to END
\* the stream is over and the checkpoint has no next node; a stream() with a
\* new user message on that thread then keeps every message of the checkpoint,
\* in order, adds the user message after them and starts the loop at the agent
\* node, which is the next step and reads exactly that history.
Terminated(c) == store[c].exists /\ store[c].next = END /\ ~active[c]

RunAfterEnd(c) ==
    (Terminated(c) /\ log'[c] # log[c] /\ Last(log'[c]).ev = "run") =>
        /\ store'[c].messages = Msgs(c) \o <<HumanMessage>>
        /\ store'[c].next = "agent"
        /\ active'[c]
        /\ result'[c] = "running"

EndsAndRestarts(c) ==
    /\ (log[c] # <<>> /\ Last(log[c]).ev = "agent" /\ Last(log[c]).calls = <<>>) =>
            /\ Terminated(c)
            /\ result[c] = "done"
            /\ Len(Msgs(c)) = Last(log[c]).n + 1
            /\ Last(Msgs(c)) = AIMessage(<<>>)
    /\ \A i \in 1..Len(log[c]) :
            (log[c][i].ev = "run" /\ log[c][i].at = END) =>
                /\ Len(Msgs(c)) >= log[c][i].n + 1
                /\ log[c][i].n >= 1
                /\ Msgs(c)[log[c][i].n].type = "ai"
                /\ Msgs(c)[log[c][i].n + 1] = HumanMessage
                /\ (i = Len(log[c]) => /\ active[c]
                                       /\ store[c].next = "agent"
                                       /\ Len(Msgs(c)) = log[c][i].n + 1)
                /\ (i < Len(log[c]) =>
                        /\ log[c][i + 1].ev \in {"agent", "agent_err"}
                        /\ log[c][i + 1].n = log[c][i].n + 1)

C9_TerminationAndMemory ==
    /\ [](checkpointer(graph) => \A c \in users : EndsAndRestarts(c))
    /\ [][checkpointer(graph) => \A c \in users : RunAfterEnd(c)]_vars

C9_Witness ==
    \E c \in users :
        /\ checkpointer(graph)
        /\ Len(log[c]) = 3
        /\ log[c][1].ev = "agent" /\ log[c][1].calls = <<>>
        /\ log[c][2].ev = "run" /\ log[c][2].at = END /\ log[c][2].n = 4
        /\ log[c][3].ev = "agent"

\* ---------------------------------------------------------------- C10
\* C10: whichever of the requested tools raise, the tool node appends one tool
\* message per call of the turn, in the order of the calls, with status
\* "error" for a call whose tool raised (or is not registered) and "success"
\* for the others; the stream stays in flight and the next step is the agent
\* node.
ToolsDone(c, i) ==
    LET e == log[c][i]
        n == e.n
    IN /\ Len(e.fail) = Len(e.calls)
       /\ Len(Msgs(c)) >= n + Len(e.calls)
       /\ n >= 1
       /\ Msgs(c)[n] = AIMessage(e.calls)
       /\ \A k \in 1..Len(e.calls) :
            /\ Msgs(c)[n + k].type = "tool"
            /\ Msgs(c)[n + k].tool_call_id = e.calls[k].id
            /\ Msgs(c)[n + k].status =
                 (IF e.fail[k] \/ e.calls[k].name \notin tools(graph)
                  THEN "error" ELSE "success")
       /\ (i < Len(log[c]) => log[c][i + 1].n = n + Len(e.calls))
       /\ (i = Len(log[c]) => /\ active[c]
                              /\ result[c] = "running"
                              /\ store[c].next = "agent"
                              /\ Len(Msgs(c)) = n + Len(e.calls))

C10_PartialToolFailure ==
    \A c \in users :
        \A i \in 1..Len(log[c]) :
            log[c][i].ev = "tools" =>
                /\ Held(c, i) => ToolsDone(c, i)
                /\ (i < Len(log[c]) => log[c][i + 1].ev \in {"agent", "agent_err"})

C10_Witness ==
    \E c \in users :
        /\ graph = "chatbot"
        /\ Len(log[c]) >= 2
        /\ log[c][Len(log[c]) - 1].ev = "tools"
        /\ log[c][Len(log[c]) - 1].fail = <<TRUE, FALSE>>
        /\ Last(log[c]).ev = "agent"
        /\ Len(Msgs(c)) = 5
        /\ Msgs(c)[3].status = "error" /\ Msgs(c)[4].status = "success"

\* ---------------------------------------------------------------- C11
\* C11 (as claimed): a tool-node step appends exactly one tool message per
\* call of the turn that is not an AskUser call, each carrying the id of its
\* call, in the order of the calls, and nothing else.
NonSentinel(calls) == SelectSeq(calls, LAMBDA x : x.name # AskUser)

\* The messages between the history an event read and the one the next event
\* read (or the present history, for the latest event).
Appended(c, i) ==
    SubSeq(Msgs(c), log[c][i].n + 1,
           IF i = Len(log[c]) THEN Len(Msgs(c)) ELSE log[c][i + 1].n)

C11_ResultShape ==
    \A c \in users :
        \A i \in 1..Len(log[c]) :
            (log[c][i].ev = "tools" /\ Held(c, i)) =>
                LET due == NonSentinel(log[c][i].calls)
                    got == Appended(c, i)
                IN /\ Len(got) = Len(due)
                   /\ \A k \in 1..Len(due) :
                        /\ got[k].type = "tool"
                        /\ got[k].tool_call_id = due[k].id

\* ---------------------------------------------------------------- C12
\* C12 (as claimed): a tool message that answers an AskUser call is never one
\* the tool node made (those carry the name of the call); it is the message
\* the caller gave to update_state.
C12_SentinelNeverAnswered ==
    \A c \in users :
        \A j \in 1..Len(Msgs(c)) :
            (Msgs(c)[j].type = "tool" /\
             \E i \in 1..(j - 1) : \E k \in 1..Len(Msgs(c)[i].tool_calls) :
                /\ Msgs(c)[i].tool_calls[k].id = Msgs(c)[j].tool_call_id
                /\ Msgs(c)[i].tool_calls[k].name = AskUser)
            => Msgs(c)[j].name = ""

\* ---------------------------------------------------------------- C13
\* C13: a call whose name the tool node does not hold (and that is not
\* AskUser) gets a tool message with status "error" at its place among the
\* results; the registered tools of the same turn are still run and answered;
\* the stream stays in flight and goes on to the agent node.
UnknownCall(call) == call.name \notin tools(graph) /\ call.name # AskUser

UnknownRecovered(c, i) ==
    LET e == log[c][i]
        n == e.n
    IN /\ Len(Msgs(c)) >= n + Len(e.calls)
       /\ \A k \in 1..Len(e.calls) :
            /\ Msgs(c)[n + k].type = "tool"
            /\ Msgs(c)[n + k].tool_call_id = e.calls[k].id
            /\ UnknownCall(e.calls[k]) => Msgs(c)[n + k].status = "error"
            /\ (e.calls[k].name \in tools(graph) /\ ~e.fail[k]) =>
                    Msgs(c)[n + k].status = "success"
       /\ (i = Len(log[c]) => active[c] /\ result[c] = "running"
                                        /\ store[c].next = "agent")
       /\ (i < Len(log[c]) => log[c][i + 1].ev \in {"agent", "agent_err"})

C13_UnknownToolName ==
    \A c \in users :
        \A i \in 1..Len(log[c]) :
            (/\ log[c][i].ev = "tools"
             /\ Held(c, i)
             /\ \E k \in 1..Len(log[c][i].calls) : UnknownCall(log[c][i].calls[k]))
            => UnknownRecovered(c, i)

C13_Witness ==
    \E c \in users :
        /\ graph = "approval"
        /\ Len(log[c]) = 3
        /\ log[c][2].ev = "tools"
        /\ Len(log[c][2].calls) = 2
        /\ log[c][2].calls[1].name = Unknown
        /\ log[c][2].calls[2].name = Search
        /\ log[c][3].ev = "agent"
        /\ Msgs(c)[3].status = "error" /\ Msgs(c)[4].status = "success"

\* ---------------------------------------------------------------- C14
\* C14: every step leaves the messages a thread held before it as a prefix of
\* the messages it holds after it: with a checkpointer over all streams of the
\* thread, pauses and resumes included, and without one for as long as the
\* stream is in flight (there is no history to keep once it has returned).
IsPrefix(a, b) == Len(a) <= Len(b) /\ SubSeq(b, 1, Len(a)) = a

AppendOnlyStep(c) ==
    IF checkpointer(graph)
    THEN IsPrefix(Msgs(c), Msgs(c)')
    ELSE (active[c] /\ active'[c]) => IsPrefix(Msgs(c), Msgs(c)')

C14_AppendOnly == [][\A c \in users : AppendOnlyStep(c)]_vars

C14_Witness ==
    \E c \in users :
        /\ graph = "clarify"
        /\ Len(Msgs(c)) = 6
        /\ Msgs(c)[1].type = "human"
        /\ Msgs(c)[2].type = "ai" /\ Msgs(c)[2].tool_calls # <<>>
        /\ Msgs(c)[3].type = "tool" /\ Msgs(c)[3].name = ""
        /\ Msgs(c)[4].type = "ai" /\ Msgs(c)[4].tool_calls = <<>>
        /\ Msgs(c)[5].type = "human"
        /\ Msgs(c)[6].type = "ai"

\* ---------------------------------------------------------------- C15
\* C15 (as claimed): every tool message of a history carries the id of a tool
\* call of the latest assistant message before it, whether the tool node made
\* it or the caller gave it to update_state.
LatestAI(msgs, j) ==
    LET before == {i \in 1..(j - 1) : msgs[i].type = "ai"}
    IN IF before = {} THEN 0 ELSE CHOOSE i \in before : \A x \in before : x <= i

C15_NoOrphanResults ==
    \A c \in users :
        \A j \in 1..Len(Msgs(c)) :
            Msgs(c)[j].type = "tool" =>
                /\ LatestAI(Msgs(c), j) # 0
                /\ \E k \in 1..Len(Msgs(c)[LatestAI(Msgs(c), j)].tool_calls) :
                     Msgs(c)[LatestAI(Msgs(c), j)].tool_calls[k].id =
                        Msgs(c)[j].tool_call_id

\* ---------------------------------------------------------------- C16
\* C16: the checkpointer holds one value per thread id, and what it returns is
\* the messages AND the next node of the thread's latest save, never the
\* messages of one save with the next node of another; a thread without a
\* checkpoint holds nothing, and a stream() with a user message on it runs as
\* on an empty history.
LatestSave(c) ==
    LET e == Last(log[c])
    IN CASE e.ev = "run" ->
                store[c].exists /\ store[c].next = "agent" /\ Len(Msgs(c)) = e.n + 1
         [] e.ev = "resume" ->
                /\ At(store[c]) = e.at
                /\ Len(Msgs(c)) = e.n
         [] e.ev = "update" ->
                store[c].exists /\ store[c].next = "agent" /\ Len(Msgs(c)) = e.n + 1
         [] e.ev = "agent" ->
                /\ store[c].exists /\ Len(Msgs(c)) = e.n + 1
                /\ Last(Msgs(c)) = AIMessage(e.calls)
                /\ store[c].next = Router(graph, Last(Msgs(c)))
         [] e.ev = "agent_err" ->
                store[c].exists /\ store[c].next = "agent" /\ Len(Msgs(c)) = e.n
         [] e.ev = "tools" ->
                /\ store[c].exists /\ store[c].next = "agent"
                /\ Len(Msgs(c)) = e.n + Len(e.calls)
         [] OTHER ->
                store[c].exists /\ store[c].next = "agent" /\ Len(Msgs(c)) = e.n

FirstRun(c, i) ==
    (log[c][i].ev = "run" /\ log[c][i].at = "no_checkpoint") =>
        /\ log[c][i].n = 0
        /\ Len(Msgs(c)) >= 1
        /\ Msgs(c)[1] = HumanMessage
        /\ (i < Len(log[c]) => /\ log[c][i + 1].ev \in {"agent", "agent_err"}
                               /\ log[c][i + 1].n = 1)

FailedCall(c, i) ==
    /\ i + 1 = Len(log[c])
    /\ log[c][i].ev \in {"run", "resume"}
    /\ log[c][i + 1].ev = "agent_err"

C17_ModelFailure ==
    checkpointer(graph) =>
        \A c \in users :
            /\ (log[c] # <<>> /\ Last(log[c]).ev = "agent_err") =>
                    /\ ~active[c]
                    /\ result[c] = "UpstreamModelError"
                    /\ Len(Msgs(c)) = Last(log[c]).n
            /\ \A i \in 1..(Len(log[c]) - 1) :
                    /\ log[c][i].ev = "agent_err" => log[c][i + 1].ev \in CallerEvents
                    /\ FailedCall(c, i) =>
                            /\ Len(Msgs(c)) = log[c][i].n
                            /\ At(store[c]) = log[c][i].at

\* ---------------------------------------------------------------- C18
\* C18 (as claimed): a stream(None) on a thread whose checkpoint has no next
\* node ends with the error of a resume that has nothing to resume, runs no
\* node and leaves the messages and the next node as they were.
ResumeAtEnd(e) == e.ev = "resume" /\ e.at = END

C18_ResumeTerminated ==
    \A c \in users :
        /\ (log[c] # <<>> /\ ResumeAtEnd(Last(log[c]))) =>
                /\ result[c] = "EmptyInputError"
                /\ ~active[c]
                /\ store[c].next = END
                /\ Len(Msgs(c)) = Last(log[c]).n
        /\ \A i \in 1..(Len(log[c]) - 1) :
                ResumeAtEnd(log[c][i]) => log[c][i + 1].ev \in CallerEvents

\* ---------------------------------------------------------------- C19
\* C19: in the graph compiled without a checkpointer every stream() starts on
\* an empty history: nothing is held between streams, and while one is in
\* flight the history is its user message followed by the assistant and tool
\* messages of that stream only.
OneRunOnly(msgs) ==
    /\ msgs # <<>>
    /\ msgs[1] = HumanMessage
    /\ \A k \in 2..Len(msgs) : msgs[k].type # "human"

C19_NoMemory ==
    graph = "stateless" =>
        \A c \in users :
            /\ ~active[c] => store[c] = NoCheckpoint
            /\ active[c] => OneRunOnly(Msgs(c))
            /\ \A i \in 1..Len(log[c]) :
                    /\ log[c][i].ev = "run" =>
                            /\ log[c][i].n = 0
                            /\ log[c][i].at = "no_checkpoint"
                            /\ (i < Len(log[c]) =>
                                    /\ log[c][i + 1].ev \in {"agent", "agent_err"}
                                    /\ log[c][i + 1].n = 1)
                    /\ (log[c][i].ev = "agent" /\ i = Len(log[c]) /\ active[c]) =>
                            Len(Msgs(c)) = log[c][i].n + 1

C19_Witness ==
    \E c \in users :
        /\ graph = "stateless"
        /\ Len(log[c]) = 3
        /\ log[c][1].ev = "agent" /\ log[c][1].calls = <<>> /\ log[c][1].n = 3
        /\ log[c][2].ev = "run"
        /\ log[c][3].ev = "agent" /\ log[c][3].n = 1

\* ---------------------------------------------------------------- C20
\* C20: the route after the agent node is a function of the shape of the
\* model's answer alone: two answers with the same tool names in the same
\* order get the same route, whatever the histories before them; and the
\* agent step leaves in the thread exactly the earlier messages followed by
\* the answer (routing writes nothing).
Shape(calls) == [k \in 1..Len(calls) |-> calls[k].name]

RouteOf(c, i) ==
    IF i = Len(log[c]) THEN store[c].next
    ELSE IF log[c][i + 1].at = "no_checkpoint" THEN END
    ELSE log[c][i + 1].at

SameShapeSameRoute(c) ==
    \A i, j \in 1..Len(log[c]) :
        (/\ log[c][i].ev = "agent" /\ log[c][j].ev = "agent"
         /\ Shape(log[c][i].calls) = Shape(log[c][j].calls))
        => RouteOf(c, i) = RouteOf(c, j)

ModelAnswered(c) == log'[c] # log[c] /\ Last(log'[c]).ev = "agent"

RoutingWritesNothing(c) ==
    ModelAnswered(c) =>
        /\ (active'[c] \/ checkpointer(graph)) =>
                Msgs(c)' = Msgs(c) \o <<AIMessage(Last(log'[c]).calls)>>
        /\ \A d \in Threads \ {c} : store'[d] = store[d]

C20_RouterPurity ==
    /\ [](\A c \in users : SameShapeSameRoute(c))
    /\ [][\A c \in users : RoutingWritesNothing(c)]_vars

C20_Witness ==
    \E c \in users :
        /\ graph = "clarify"
        /\ Len(log[c]) = 3
        /\ log[c][1].ev = "agent" /\ log[c][3].ev = "agent"
        /\ log[c][1].calls # log[c][3].calls
        /\ Shape(log[c][1].calls) = <<AskUser>>
        /\ Shape(log[c][3].calls) = <<AskUser>>
        /\ log[c][2].ev = "run"
        /\ store[c].next = "ask_user"

\* ---------------------------------------------------------------- C21
\* C21: a step of the agent node in which the model answers leaves in its
\* thread the earlier messages, unchanged, followed by exactly one assistant
\* message; it changes nothing of any other thread; and the next node is not
\* its choice: it is what the conditional edge gives for the new last message.
AgentEffect(c) ==
    ModelAnswered(c) =>
        LET m == AIMessage(Last(log'[c]).calls)
        IN /\ Len(m.tool_calls) \in 0..MaxCalls
           /\ (active'[c] \/ checkpointer(graph)) =>
                /\ Len(Msgs(c)') = Len(Msgs(c)) + 1
                /\ SubSeq(Msgs(c)', 1, Len(Msgs(c))) = Msgs(c)
                /\ Last(Msgs(c)') = m
                /\ store'[c].next = Router(graph, m)
           /\ \A d \in Threads \ {c} : Own(d)' = Own(d)
           /\ graph' = graph

C21_AgentStepEffect == [][\A c \in users : AgentEffect(c)]_vars

C21_Witness ==
    /\ users = Threads
    /\ log["user_1"] # <<>> /\ Last(log["user_1"]).ev = "agent"
    /\ Len(Last(log["user_1"]).calls) = 1
    /\ Len(Msgs("user_1")) = 2
    /\ active["user_2"] /\ Len(Msgs("user_2")) = 1

\* ---------------------------------------------------------------- C22
\* C22 (as claimed): a stream() that returns without an error leaves the
\* thread terminated (no next node), awaiting the human (ask_user next) or
\* awaiting the approval (tool node next), never with the agent node or another
\* step pending; and a thread only moves as the state machine lists: into a run
\* at the agent node by a user message when it has no checkpoint or is
\* terminated, within a run, out of a run into one of the three states (or
\* halted by a model error, from which it is run again), from awaiting the
\* human into the agent node with the human's answer appended, and from
\* awaiting the approval into the tool node on the unchanged history.
Phase(act, ck) ==
    IF act THEN "RUNNING"
    ELSE IF ~ck.exists THEN "NONE"
    ELSE CASE ck.next = END -> "TERMINATED"
           [] ck.next = "ask_user" -> "AWAITING_HUMAN"
           [] ck.next = "tool_node" -> "AWAITING_TOOL_DISPATCH"
           [] OTHER -> "HALTED"

ReturnedNormally(c) ==
    /\ ~active[c]
    /\ result[c] \in {"done", "interrupt"}
    /\ log[c] # <<>>
    /\ Last(log[c]).ev # "update"

ListedTransition(c) ==
    LET p == Phase(active[c], store[c])
        q == Phase(active'[c], store'[c])
    IN \/ Own(c)' = Own(c)
       \/ p = q /\ p # "RUNNING" /\ store'[c] = store[c]
       \/ /\ p \in {"NONE", "TERMINATED"} /\ q = "RUNNING"
          /\ store'[c].next = "agent"
          /\ Msgs(c)' = Msgs(c) \o <<HumanMessage>>
       \/ /\ p = "RUNNING"
          /\ q \in {"RUNNING", "TERMINATED", "AWAITING_HUMAN",
                    "AWAITING_TOOL_DISPATCH"}
       \/ p = "RUNNING" /\ q = "HALTED" /\ result'[c] = "UpstreamModelError"
       \/ p = "HALTED" /\ q = "RUNNING" /\ store'[c].next = "agent"
       \/ /\ p = "AWAITING_HUMAN" /\ q = "HALTED"
          /\ Len(Msgs(c)') = Len(Msgs(c)) + 1
          /\ Last(Msgs(c)').type = "tool"
       \/ /\ p = "AWAITING_TOOL_DISPATCH" /\ q = "RUNNING"
          /\ store'[c] = store[c]

C22_SuspensionPoints ==
    /\ [](checkpointer(graph) =>
            \A c \in users :
                ReturnedNormally(c) =>
                    Phase(active[c], store[c]) \in
                        {"TERMINATED", "AWAITING_HUMAN", "AWAITING_TOOL_DISPATCH"})
    /\ [][checkpointer(graph) => \A c \in users : ListedTransition(c)]_vars

\* ---------------------------------------------------------------- C23
\* C23: a stream() with a user message runs the agent node first; after a
\* tool-node step the stream is still in flight and the next step is the agent
\* node (never the end of the stream, never the tool node again); and the tool
\* node only runs on a history whose last message is an assistant message
\* with tool calls, which are the calls it executes.
LoopOrder(c, i) ==
    LET e == log[c][i]
    IN /\ e.ev = "run" =>
            /\ (i = Len(log[c]) => active[c] /\ store[c].next = "agent")
            /\ (i < Len(log[c]) => log[c][i + 1].ev \in {"agent", "agent_err"})
       /\ e.ev = "tools" =>
            /\ (i = Len(log[c]) => active[c] /\ store[c].next = "agent")
            /\ (i < Len(log[c]) => log[c][i + 1].ev \in {"agent", "agent_err"})
            /\ (i > 1 => log[c][i - 1].ev # "tools")
            /\ e.calls # <<>>
            /\ Held(c, i) => /\ e.n >= 1 /\ Len(Msgs(c)) >= e.n
                             /\ Msgs(c)[e.n] = AIMessage(e.calls)

C23_LoopOrder ==
    \A c \in users : \A i \in 1..Len(log[c]) : LoopOrder(c, i)

C23_Witness ==
    \E c \in users :
        /\ graph = "chatbot"
        /\ Len(log[c]) = 3
        /\ log[c][1].ev = "run"
        /\ log[c][2].ev = "agent" /\ Len(log[c][2].calls) = 2
        /\ log[c][3].ev = "tools"
        /\ active[c] /\ store[c].next = "agent"

\* ---------------------------------------------------------------- C25
\* C25: in every checkpoint, next = ask_user only if the last message is an
\* assistant message whose first tool call is AskUser, next = tool node only
\* if the last message is an assistant message with at least one tool call,
\* and no next node only if the last message is an assistant message with no
\* tool calls.
NextAgreesWithLast(ck) ==
    /\ ck.messages # <<>>
    /\ Last(ck.messages).type = "ai"
    /\ ck.next = "ask_user" =>
            /\ Last(ck.messages).tool_calls # <<>>
            /\ Last(ck.messages).tool_calls[1].name = AskUser
    /\ ck.next = "tool_node" => Last(ck.messages).tool_calls # <<>>
    /\ ck.next = END => Last(ck.messages).tool_calls = <<>>

C25_CheckpointConsistency ==
    \A c \in users :
        (store[c].exists /\ store[c].next \in {"ask_user", "tool_node", END})
            => NextAgreesWithLast(store[c])

C25_Witness ==
    \E c \in users :
        /\ graph = "clarify" /\ ~active[c]
        /\ store[c].exists /\ store[c].next = "ask_user"
        /\ Len(Msgs(c)) = 4
        /\ Msgs(c)[2] = AIMessage(<<>>)
        /\ Len(Last(Msgs(c)).tool_calls) = 1

\* ---------------------------------------------------------------- C26
\* C26: with interrupt_before=["tools"], a stream(None) lets the tool node run
\* once, on the calls staged at that pause: when the model then asks for tools
\* again the stream returns paused before the tool node, and between any two
\* tool-node steps of a thread there is a stream(None) of the caller, so there
\* are never more tool-node steps than resumes.
PausedAgain(c, i) ==
    (/\ log[c][i].ev = "tools"
     /\ i < Len(log[c])
     /\ log[c][i + 1].ev = "agent"
     /\ log[c][i + 1].calls # <<>>)
    => /\ (i + 1 = Len(log[c]) => /\ ~active[c]
                                  /\ result[c] = "interrupt"
                                  /\ store[c].next = "tool_node")
       /\ (i + 1 < Len(log[c]) => log[c][i + 2].ev \in CallerEvents)

OwnResume(c, i) ==
    log[c][i].ev = "tools" =>
        /\ (i > 1 => /\ log[c][i - 1].ev = "resume"
                     /\ log[c][i - 1].at = "tool_node"
                     /\ log[c][i - 1].n = log[c][i].n)
        /\ \A j \in (i + 1)..Len(log[c]) :
                log[c][j].ev = "tools" =>
                    \E k \in (i + 1)..(j - 1) : log[c][k].ev = "resume"

C26_OneApprovalPerTurn ==
    graph = "approval" =>
        \A c \in users : \A i \in 1..Len(log[c]) :
            PausedAgain(c, i) /\ OwnResume(c, i)

C26_Witness ==
    \E c \in users :
        /\ graph = "approval"
        /\ Len(log[c]) = 3
        /\ log[c][1].ev = "resume" /\ log[c][1].at = "tool_node"
        /\ log[c][2].ev = "tools"
        /\ log[c][3].ev = "agent" /\ log[c][3].calls # <<>>
        /\ ~active[c] /\ store[c].next = "tool_node"

\* ---------------------------------------------------------------- C27
\* C27 (as claimed): a stream() with a user message on a thread that is paused
\* before ask_user or before the tool node leaves the pause in place: the
\* pending node is still the next node and the agent node is not run on the
\* history whose last tool calls are unanswered.
RunAtPause(e) == e.ev = "run" /\ e.at \in {"ask_user", "tool_node"}

C27_RunDuringPause ==
    \A c \in users :
        \A i \in 1..Len(log[c]) :
            RunAtPause(log[c][i]) =>
                /\ (i = Len(log[c]) => store[c].next = log[c][i].at)
                /\ (i < Len(log[c]) => log[c][i + 1].ev \notin {"agent", "agent_err"})

\* ---------------------------------------------------------------- C29
\* C29: on every assistant message that holds no AskUser call, routing_condition
\* and tools_condition give the same next node: END when it has no tool calls,
\* the tool node otherwise.
NoSentinel(m) == \A k \in 1..Len(m.tool_calls) : m.tool_calls[k].name # AskUser

RoutersAgree(m) ==
    (m.type = "ai" /\ NoSentinel(m)) =>
        /\ routing_condition(m) = tools_condition(m)
        /\ routing_condition(m) = (IF m.tool_calls = <<>> THEN END ELSE "tool_node")

C29_RouterEquivalence ==
    \A c \in users : \A i \in 1..Len(Msgs(c)) : RoutersAgree(Msgs(c)[i])

C29_Witness ==
    \E c \in users :
        /\ graph = "clarify"
        /\ Msgs(c) # <<>>
        /\ Last(Msgs(c)).type = "ai"
        /\ Len(Last(Msgs(c)).tool_calls) = 2
        /\ NoSentinel(Last(Msgs(c)))
        /\ Last(Msgs(c)).tool_calls[1].name = Search
        /\ Last(Msgs(c)).tool_calls[2].name = Unknown
        /\ store[c].next = "tool_node"

\* ---------------------------------------------------------------- C24
\* C24: in whatever order the calls of a turn complete, the tool messages the
\* tool node appends are in the order of the calls, and they are the messages
\* that running the calls one after the other gives.
InRequestOrder(c, i) ==
    LET e == log[c][i]
    IN /\ Len(e.order) = Len(e.calls)
       /\ Len(Msgs(c)) >= e.n + Len(e.calls)
       /\ SubSeq(Msgs(c), e.n + 1, e.n + Len(e.calls)) =
             ToolNode(graph, e.calls, e.fail)
       /\ \A k \in 1..Len(e.calls) :
             Msgs(c)[e.n + k].tool_call_id = e.calls[k].id

C24_ParallelDispatch ==
    \A c \in users :
        \A i \in 1..Len(log[c]) :
            (log[c][i].ev = "tools" /\ Held(c, i)) => InRequestOrder(c, i)

C24_Witness ==
    \E c \in users :
        /\ graph = "chatbot"
        /\ log[c] # <<>>
        /\ Last(log[c]).ev = "tools"
        /\ Last(log[c]).order = <<2, 1>>
        /\ Last(log[c]).fail = <<FALSE, TRUE>>
        /\ Msgs(c)[3].tool_call_id = 1 /\ Msgs(c)[3].status = "success"
        /\ Msgs(c)[4].tool_call_id = 2 /\ Msgs(c)[4].status = "error"

\* ---------------------------------------------------------------- C28
\* C28 (as claimed): while a stream() call is in flight a step of the loop is
\* enabled, and the loop puts no bound on the number of its iterations: a call
\* in which the model and the tools return ends only when the router names END
\* (terminated) or at a pause before ask_user or before the tool node, however
\* many turns the model takes before it answers without tool calls.
StepEnabled(c) ==
    /\ store[c].exists
    /\ store[c].next \in {"agent", "tool_node", "ask_user"}
    /\ store[c].next = "tool_node" => Last(Msgs(c)).type = "ai"

EndedAfterStep(c) ==
    /\ ~active[c]
    /\ log[c] # <<>>
    /\ Last(log[c]).ev \in {"agent", "tools", "ask_user"}

C28_RunTermination ==
    \A c \in users :
        /\ active[c] => StepEnabled(c)
        /\ EndedAfterStep(c) =>
            /\ result[c] \in {"done", "interrupt"}
            /\ checkpointer(graph) =>
                Phase(FALSE, store[c]) \in {"TERMINATED", "AWAITING_HUMAN",
                                            "AWAITING_TOOL_DISPATCH"}

=============================================================================
